---- MODULE Spec2Model ----
(***************************************************************************)
(* Model of the Judge0 execution client of AlgoPulse-Editor               *)
(* (Judge0Service: submitCode, getResult, executeCode, formatOutput and    *)
(* the base64 helpers).                                                    *)
(*                                                                         *)
(* Representation of JavaScript values:                                    *)
(*  - a JS string whose characters matter one by one (payloads, base64     *)
(*    text) is a sequence of UTF-16 code units (naturals);                 *)
(*  - a displayed text or an error message is a sequence of atoms: an atom *)
(*    is either Ch(c), one code unit, or Lit(s), a fixed fragment of the   *)
(*    source's string literals.  Digits are always Ch atoms, so that       *)
(*    String.prototype.includes("401") is decided by the code units;       *)
(*  - an operation that can throw yields [ok |-> TRUE, val |-> v] or       *)
(*    [ok |-> FALSE, err |-> e].                                           *)
(***************************************************************************)
EXTENDS Integers, Sequences, FiniteSets, TLC

(***************************************************************************)
(* Texts                                                                   *)
(***************************************************************************)
Ch(c) == [ch |-> c]
Lit(s) == [lit |-> s]

\* the text of a JS string given by its code units
Chars(str) == [i \in 1..Len(str) |-> Ch(str[i])]

\* `${n}` for a non-negative integer n: its decimal digits
RECURSIVE DigitsOf(_)
DigitsOf(n) == IF n < 10 THEN <<48 + n>> ELSE DigitsOf(n \div 10) \o <<48 + (n % 10)>>

\* `${n}` for any integer n (template literal / string concatenation)
NumText(n) == IF n < 0 THEN <<Ch(45)>> \o Chars(DigitsOf(0 - n)) ELSE Chars(DigitsOf(n))

\* String.prototype.includes
Includes(text, pat) ==
    \E i \in 1..(Len(text) - Len(pat) + 1) : SubSeq(text, i, i + Len(pat) - 1) = pat

Ok(v) == [ok |-> TRUE, val |-> v]
Throw(e) == [ok |-> FALSE, err |-> e]

\* an Error object: its class and its message
Err(name, message) == [name |-> name, message |-> message]

(***************************************************************************)
(* UTF-8 and base64 (encodeBase64 / decodeBase64)                          *)
(***************************************************************************)
IsHighSurrogate(u) == u >= 55296 /\ u <= 56319
IsLowSurrogate(u) == u >= 56320 /\ u <= 57343

Utf8OfCodePoint(cp) ==
    IF cp < 128 THEN <<cp>>
    ELSE IF cp < 2048 THEN <<192 + (cp \div 64), 128 + (cp % 64)>>
    ELSE IF cp < 65536
         THEN <<224 + (cp \div 4096), 128 + ((cp \div 64) % 64), 128 + (cp % 64)>>
    ELSE <<240 + (cp \div 262144), 128 + ((cp \div 4096) % 64),
           128 + ((cp \div 64) % 64), 128 + (cp % 64)>>

\* unescape(encodeURIComponent(str)): the UTF-8 bytes of str as a binary
\* string; encodeURIComponent throws URIError on a lone surrogate
RECURSIVE EncodeUtf8(_)
EncodeUtf8(str) ==
    IF str = <<>> THEN Ok(<<>>)
    ELSE LET u == Head(str) IN
         IF IsLowSurrogate(u) THEN Throw(Err("URIError", <<Lit("URI malformed")>>))
         ELSE IF IsHighSurrogate(u)
              THEN IF Len(str) >= 2 /\ IsLowSurrogate(str[2])
                   THEN LET cp == 65536 + (u - 55296) * 1024 + (str[2] - 56320)
                            rest == EncodeUtf8(SubSeq(str, 3, Len(str)))
                        IN IF rest.ok THEN Ok(Utf8OfCodePoint(cp) \o rest.val) ELSE rest
                   ELSE Throw(Err("URIError", <<Lit("URI malformed")>>))
         ELSE LET rest == EncodeUtf8(Tail(str))
              IN IF rest.ok THEN Ok(Utf8OfCodePoint(u) \o rest.val) ELSE rest

IsCont(b) == b >= 128 /\ b <= 191

\* number of bytes announced by a UTF-8 lead byte (0: not a lead byte)
Utf8Need(b) ==
    IF b < 128 THEN 1
    ELSE IF b >= 192 /\ b <= 223 THEN 2
    ELSE IF b >= 224 /\ b <= 239 THEN 3
    ELSE IF b >= 240 /\ b <= 247 THEN 4
    ELSE 0

\* the code point of a well-shaped UTF-8 sequence of n bytes
Utf8CodePoint(bs, n) ==
    IF n = 1 THEN bs[1]
    ELSE IF n = 2 THEN (bs[1] - 192) * 64 + (bs[2] - 128)
    ELSE IF n = 3 THEN (bs[1] - 224) * 4096 + (bs[2] - 128) * 64 + (bs[3] - 128)
    ELSE (bs[1] - 240) * 262144 + (bs[2] - 128) * 4096 + (bs[3] - 128) * 64 + (bs[4] - 128)

\* smallest code point that needs n bytes (anything below is overlong)
Utf8Min(n) == IF n = 1 THEN 0 ELSE IF n = 2 THEN 128 ELSE IF n = 3 THEN 2048 ELSE 65536

Utf16OfCodePoint(cp) ==
    IF cp < 65536 THEN <<cp>>
    ELSE <<55296 + ((cp - 65536) \div 1024), 56320 + ((cp - 65536) % 1024)>>

\* decodeURIComponent(escape(bin)): strict UTF-8 decoding of a binary string;
\* decodeURIComponent throws URIError on any malformed sequence
RECURSIVE DecodeUtf8(_)
DecodeUtf8(bin) ==
    IF bin = <<>> THEN Ok(<<>>)
    ELSE LET n == Utf8Need(Head(bin)) IN
         IF n = 0 \/ Len(bin) < n \/ (\E j \in 2..n : ~IsCont(bin[j]))
         THEN Throw(Err("URIError", <<Lit("URI malformed")>>))
         ELSE LET cp == Utf8CodePoint(bin, n) IN
              IF cp < Utf8Min(n) \/ cp > 1114111 \/ (cp >= 55296 /\ cp <= 57343)
              THEN Throw(Err("URIError", <<Lit("URI malformed")>>))
              ELSE LET rest == DecodeUtf8(SubSeq(bin, n + 1, Len(bin)))
                   IN IF rest.ok THEN Ok(Utf16OfCodePoint(cp) \o rest.val) ELSE rest

\* the base64 alphabet as code units: A-Z a-z 0-9 + /
B64Char(i) ==
    IF i < 26 THEN 65 + i
    ELSE IF i < 52 THEN 97 + (i - 26)
    ELSE IF i < 62 THEN 48 + (i - 52)
    ELSE IF i = 62 THEN 43 ELSE 47

\* the 6-bit value of a base64 character, -1 when it is not one
B64Index(c) ==
    IF c >= 65 /\ c <= 90 THEN c - 65
    ELSE IF c >= 97 /\ c <= 122 THEN c - 97 + 26
    ELSE IF c >= 48 /\ c <= 57 THEN c - 48 + 52
    ELSE IF c = 43 THEN 62
    ELSE IF c = 47 THEN 63
    ELSE 0 - 1

Pad == 61

RECURSIVE B64OfBytes(_)
B64OfBytes(bs) ==
    IF bs = <<>> THEN <<>>
    ELSE IF Len(bs) = 1
         THEN <<B64Char(bs[1] \div 4), B64Char((bs[1] % 4) * 16), Pad, Pad>>
    ELSE IF Len(bs) = 2
         THEN <<B64Char(bs[1] \div 4), B64Char((bs[1] % 4) * 16 + (bs[2] \div 16)),
                B64Char((bs[2] % 16) * 4), Pad>>
    ELSE <<B64Char(bs[1] \div 4), B64Char((bs[1] % 4) * 16 + (bs[2] \div 16)),
           B64Char((bs[2] % 16) * 4 + (bs[3] \div 64)), B64Char(bs[3] % 64)>>
         \o B64OfBytes(SubSeq(bs, 4, Len(bs)))

\* btoa: throws InvalidCharacterError when a code unit is above 0xFF
btoa(bin) ==
    IF \E i \in 1..Len(bin) : bin[i] > 255
    THEN Throw(Err("InvalidCharacterError", <<Lit("Failed to execute 'btoa'")>>))
    ELSE Ok(B64OfBytes(bin))

IsAsciiWhitespace(c) == c \in {9, 10, 12, 13, 32}

RECURSIVE StripWhitespace(_)
StripWhitespace(str) ==
    IF str = <<>> THEN <<>>
    ELSE IF IsAsciiWhitespace(Head(str)) THEN StripWhitespace(Tail(str))
    ELSE <<Head(str)>> \o StripWhitespace(Tail(str))

\* removal of the padding of a forgiving-base64 text
StripPad(s) ==
    IF Len(s) > 0 /\ Len(s) % 4 = 0 /\ s[Len(s)] = Pad
    THEN IF s[Len(s) - 1] = Pad THEN SubSeq(s, 1, Len(s) - 2) ELSE SubSeq(s, 1, Len(s) - 1)
    ELSE s

\* the bytes of unpadded base64 characters, left-over bits discarded
RECURSIVE BytesOfB64(_)
BytesOfB64(s) ==
    IF Len(s) < 2 THEN <<>>
    ELSE LET a == B64Index(s[1])
             b == B64Index(s[2])
         IN IF Len(s) = 2 THEN <<a * 4 + (b \div 16)>>
            ELSE LET c == B64Index(s[3]) IN
                 IF Len(s) = 3 THEN <<a * 4 + (b \div 16), (b % 16) * 16 + (c \div 4)>>
                 ELSE <<a * 4 + (b \div 16), (b % 16) * 16 + (c \div 4),
                        (c % 4) * 64 + B64Index(s[4])>>
                      \o BytesOfB64(SubSeq(s, 5, Len(s)))

\* atob: forgiving-base64 decode; throws InvalidCharacterError on malformed text
atob(str) ==
    LET s == StripPad(StripWhitespace(str)) IN
    IF Len(s) % 4 = 1 \/ (\E i \in 1..Len(s) : B64Index(s[i]) < 0)
    THEN Throw(Err("InvalidCharacterError", <<Lit("Failed to execute 'atob'")>>))
    ELSE Ok(BytesOfB64(s))

\* Judge0Service.encodeBase64
encodeBase64(str) ==
    LET safe == EncodeUtf8(str) IN
    IF safe.ok THEN btoa(safe.val) ELSE btoa(str)

\* the decoder without the UTF-8 step: atob alone
decodeBase64_Binary(str) == atob(str)

\* Judge0Service.decodeBase64
decodeBase64(str) ==
    LET bin == atob(str) IN
    IF bin.ok /\ DecodeUtf8(bin.val).ok THEN DecodeUtf8(bin.val) ELSE bin

(***************************************************************************)
(* JavaScript values of the service protocol                               *)
(***************************************************************************)
\* an optional property is the empty set (undefined / null) or one value
Absent == {}
Some(v) == {v}
Get(opt) == CHOOSE v \in opt : TRUE
\* truthiness of an optional string or text: present and not ""
Truthy(opt) == opt # Absent /\ Get(opt) # <<>>
\* truthiness of an optional number: present and not 0
TruthyNum(opt) == opt # Absent /\ Get(opt) # 0

\* Response.ok
ResponseOk(status) == status >= 200 /\ status <= 299

\* the message of the TypeError a failed fetch rejects with
FetchFailed == Err("TypeError", <<Lit("Failed to fetch")>>)
\* the error of JSON.parse on an unparsable text
JsonSyntaxError == Err("SyntaxError", <<Lit("Unexpected token in JSON")>>)
\* the error of reading a property of undefined
UndefinedProperty == Err("TypeError", <<Lit("Cannot read properties of undefined")>>)

\* responseText of a body: the JSON serialisation of an object, the digits
\* of a JSON number, or the raw text of a body that is not JSON
RawText(body) ==
    IF body.form = "object"
    THEN <<Lit("{")>>
         \o (IF body.error # Absent
             THEN <<Lit("\"error\":\"")>> \o Get(body.error) \o <<Lit("\"")>> ELSE <<>>)
         \o (IF body.message # Absent
             THEN <<Lit("\"message\":\"")>> \o Get(body.message) \o <<Lit("\"")>> ELSE <<>>)
         \o (IF body.token # Absent
             THEN <<Lit("\"token\":\"")>> \o Get(body.token) \o <<Lit("\"")>> ELSE <<>>)
         \o <<Lit("}")>>
    ELSE IF body.form = "result" THEN <<Lit("{\"status\":{\"id\":")>> \o NumText(body.result.status.id)
                                      \o <<Lit(",...}")>>
    ELSE IF body.form = "number" THEN NumText(body.number)
    ELSE body.text

(***************************************************************************)
(* Judge0Service                                                           *)
(***************************************************************************)
maxAttempts == 30

NotConfigured ==
    Err("Error", <<Lit("Judge"), Ch(48), Lit(" "), Lit("API key not configured"),
                   Lit(". Please check your .env.local file.")>>)

NoToken == Err("Error", <<Lit("No token received from Judge"), Ch(48), Lit(" API")>>)

\* submitCode, lines 58-62: the request body
RequestBody(languageId, sourceCode, stdin) ==
    LET src == encodeBase64(sourceCode)
        inp == IF stdin # <<>> THEN encodeBase64(stdin) ELSE Ok(<<>>)
    IN IF ~src.ok THEN src
       ELSE IF ~inp.ok THEN inp
       ELSE Ok([language_id |-> languageId, source_code |-> src.val, stdin |-> inp.val])

\* submitCode, lines 84-98: the error of a non-success response
SubmitHttpError(status, body) ==
    LET head == <<Lit("HTTP error! status: ")>> \o NumText(status)
        sep == <<Lit(" - ")>>
    IN Err("Error",
           IF body.form = "object"
           THEN head \o (IF Truthy(body.error) THEN sep \o Get(body.error) ELSE <<>>)
                     \o (IF Truthy(body.message) THEN sep \o Get(body.message) ELSE <<>>)
           ELSE IF body.form = "number" THEN head
           ELSE head \o sep \o RawText(body))

\* the token returned without the check that there is one
SubmitOutcome_NoTokenCheck(resp) ==
    IF resp.kind = "network" THEN Throw(FetchFailed)
    ELSE IF ~ResponseOk(resp.status) THEN Throw(SubmitHttpError(resp.status, resp.body))
    ELSE IF resp.body.form = "text" THEN Throw(JsonSyntaxError)
    ELSE IF resp.body.form = "object"
         THEN Ok(IF resp.body.token # Absent THEN Get(resp.body.token) ELSE <<>>)
    ELSE Ok(<<>>)

\* submitCode, lines 81-106: what a received response is turned into
SubmitOutcome(resp) ==
    IF resp.kind = "network" THEN Throw(FetchFailed)
    ELSE IF ~ResponseOk(resp.status) THEN Throw(SubmitHttpError(resp.status, resp.body))
    ELSE IF resp.body.form = "text" THEN Throw(JsonSyntaxError)
    ELSE IF resp.body.form = "object" /\ Truthy(resp.body.token) THEN Ok(Get(resp.body.token))
    ELSE Throw(NoToken)

\* getResult, lines 126-132: what a received response is turned into
GetResultOutcome(resp) ==
    IF resp.kind = "network" THEN Throw(FetchFailed)
    ELSE IF ~ResponseOk(resp.status)
         THEN Throw(Err("Error", <<Lit("HTTP error! status: ")>> \o NumText(resp.status)
                                 \o <<Lit(" - ")>> \o RawText(resp.body)))
    ELSE IF resp.body.form = "text" THEN Throw(JsonSyntaxError)
    ELSE IF resp.body.form = "result" THEN Ok(resp.body.result)
    ELSE Throw(UndefinedProperty)

TimeoutText == <<Lit("Error: Code execution timed out after "), Ch(51), Ch(48), Lit(" seconds")>>
InvalidKeyText == <<Lit("Error: Invalid API key. Please check your Judge"), Ch(48),
                    Lit(" API configuration.")>>
ForbiddenText == <<Lit("Error: API access forbidden. Please check your Judge"), Ch(48),
                   Lit(" subscription.")>>
RateLimitText == <<Lit("Error: Rate limit exceeded. Please try again later.")>>
NotConfiguredText ==
    <<Lit("Error: Judge"), Ch(48), Lit(" "), Lit("API key not configured"),
      Lit(". Please add NEXT_PUBLIC_JUDGE"), Ch(48), Lit("_API_KEY to your .env.local file.")>>

Return(text) == [kind |-> "return", text |-> text]
Rethrow(error) == [kind |-> "throw", error |-> error]
NoOutcome == [kind |-> "none"]

\* executeCode, lines 165-182: the catch block
Catch(error) ==
    IF Includes(error.message, <<Ch(52), Ch(48), Ch(49)>>) THEN Return(InvalidKeyText)
    ELSE IF Includes(error.message, <<Ch(52), Ch(48), Ch(51)>>) THEN Return(ForbiddenText)
    ELSE IF Includes(error.message, <<Ch(52), Ch(50), Ch(57)>>) THEN Return(RateLimitText)
    ELSE IF Includes(error.message, <<Lit("API key not configured")>>)
         THEN Return(NotConfiguredText)
    ELSE Rethrow(error)

\* formatOutput: decodeBase64 of a field with a label in front; throws when
\* decodeBase64 throws
Section(label, field) ==
    LET d == decodeBase64(Get(field))
    IN IF d.ok THEN Ok(label \o Chars(d.val)) ELSE d

\* a section for every field that is there, the empty string included
OptionalSection_IfDefined(label, field) ==
    IF field # Absent THEN Section(label, field) ELSE Ok(<<>>)

\* formatOutput, lines 248-258: the optional sections of an unknown status
OptionalSection(label, field) == IF Truthy(field) THEN Section(label, field) ELSE Ok(<<>>)

\* formatOutput, lines 186-259: the part in front of the execution info
FormatBody(result) ==
    LET id == result.status.id IN
    IF id = 3 THEN IF Truthy(result.stdout)
                   THEN Section(<<Lit("Output:\n")>>, result.stdout)
                   ELSE Ok(<<Lit("Code executed successfully (no output)")>>)
    ELSE IF id = 4 THEN IF Truthy(result.stdout)
                        THEN Section(<<Lit("Wrong Answer\n"), Lit("Output:\n")>>, result.stdout)
                        ELSE Ok(<<Lit("Wrong Answer\n")>>)
    ELSE IF id = 5 THEN Ok(<<Lit("Time Limit Exceeded\n")>>)
    ELSE IF id = 6 THEN IF Truthy(result.compile_output)
                        THEN Section(<<Lit("Compilation Error:\n")>>, result.compile_output)
                        ELSE Ok(<<Lit("Compilation Error:\n")>>)
    ELSE IF id = 7 THEN IF Truthy(result.stderr)
                        THEN Section(<<Lit("Runtime Error (Segmentation Fault)\n"),
                                       Lit("Error Details:\n")>>, result.stderr)
                        ELSE Ok(<<Lit("Runtime Error (Segmentation Fault)\n")>>)
    ELSE IF id = 8 THEN Ok(<<Lit("Runtime Error (File Size Limit Exceeded)\n")>>)
    ELSE IF id = 9 THEN Ok(<<Lit("Runtime Error (Floating Point Exception)\n")>>)
    ELSE IF id = 10 THEN Ok(<<Lit("Runtime Error (Aborted)\n")>>)
    ELSE IF id = 11 THEN IF Truthy(result.stderr)
                         THEN Section(<<Lit("Runtime Error (Non-zero Exit Code)\n"),
                                        Lit("Error Details:\n")>>, result.stderr)
                         ELSE Ok(<<Lit("Runtime Error (Non-zero Exit Code)\n")>>)
    ELSE IF id = 12 THEN IF Truthy(result.stderr)
                         THEN Section(<<Lit("Runtime Error\n"), Lit("Error Details:\n")>>,
                                      result.stderr)
                         ELSE Ok(<<Lit("Runtime Error\n")>>)
    ELSE IF id = 13 THEN Ok(<<Lit("Internal Error: Please try again later\n")>>)
    ELSE IF id = 14 THEN Ok(<<Lit("Execution Format Error\n")>>)
    ELSE LET out == OptionalSection(<<Lit("\nOutput:\n")>>, result.stdout)
             errs == OptionalSection(<<Lit("\nErrors:\n")>>, result.stderr)
             comp == OptionalSection(<<Lit("\nCompilation:\n")>>, result.compile_output)
         IN IF ~out.ok THEN out
            ELSE IF ~errs.ok THEN errs
            ELSE IF ~comp.ok THEN comp
            ELSE Ok(<<Lit("Unknown Status (")>> \o NumText(id) \o <<Lit("): ")>>
                    \o result.status.description \o <<Lit("\n")>>
                    \o out.val \o errs.val \o comp.val)

\* the execution info without the status code
ExecutionInfo_NoCode(result) ==
    <<Lit("\n\n--- Execution Info ---"), Lit("\nStatus: ")>> \o result.status.description
    \o <<Lit("\nTime: ")>>
    \o (IF Truthy(result.time) THEN Chars(Get(result.time)) ELSE <<Lit("N/A")>>)
    \o <<Lit("s"), Lit("\nMemory: ")>>
    \o (IF TruthyNum(result.memory) THEN NumText(Get(result.memory)) ELSE <<Lit("N/A")>>)
    \o <<Lit(" KB")>>

\* formatOutput, lines 261-265: the execution info
ExecutionInfo(result) ==
    <<Lit("\n\n--- Execution Info ---"), Lit("\nStatus: ")>> \o result.status.description
    \o <<Lit(" (")>> \o NumText(result.status.id) \o <<Lit(")")>>
    \o <<Lit("\nTime: ")>>
    \o (IF Truthy(result.time) THEN Chars(Get(result.time)) ELSE <<Lit("N/A")>>)
    \o <<Lit("s"), Lit("\nMemory: ")>>
    \o (IF TruthyNum(result.memory) THEN NumText(Get(result.memory)) ELSE <<Lit("N/A")>>)
    \o <<Lit(" KB")>>

\* Judge0Service.formatOutput
formatOutput(result) ==
    LET body == FormatBody(result)
    IN IF body.ok THEN Ok(body.val \o ExecutionInfo(result)) ELSE body

\* no status keeps the loop going
StillProcessing_Never(result) == FALSE

\* executeCode, line 154: the poll loop goes on
StillProcessing(result) == result.status.id <= 2

\* the loop condition off by one: attempts <= maxAttempts
WithinBudget_OffByOne(n) == n <= maxAttempts

\* executeCode, line 148: the condition of the poll loop
WithinBudget(n) == n < maxAttempts

\* the key check left out
KeyMissing_Unchecked(key) == FALSE

\* submitCode and getResult, lines 53 and 114: no key is configured
KeyMissing(key) == key = ""

(***************************************************************************)
(* The remote judging service: everything it can answer                    *)
(***************************************************************************)
\* the status ids a poll fetch may report: the ids 1..14 of the service, some
\* ids below 1 and the ids above 14 up to MaxStatusId
CodesBelowOne == 2
MaxStatusId == 15
StatusIds == (1 - CodesBelowOne)..MaxStatusId

\* status descriptions of the service, by status id
StatusDescription(id) ==
    IF id = 1 THEN <<Lit("In Queue")>>
    ELSE IF id = 2 THEN <<Lit("Processing")>>
    ELSE IF id = 3 THEN <<Lit("Accepted")>>
    ELSE IF id = 4 THEN <<Lit("Wrong Answer")>>
    ELSE IF id = 5 THEN <<Lit("Time Limit Exceeded")>>
    ELSE IF id = 6 THEN <<Lit("Compilation Error")>>
    ELSE IF id \in 7..12 THEN <<Lit("Runtime Error")>>
    ELSE IF id = 13 THEN <<Lit("Internal Error")>>
    ELSE IF id = 14 THEN <<Lit("Exec Format Error")>>
    ELSE <<Lit("Unknown")>>

\* what the judged program wrote, as bytes: "hi\n" on stdout, one byte that
\* is not UTF-8 on stderr, the UTF-8 bytes of U+00E9 from the compiler
StdoutBytes == <<104, 105, 10>>
StderrBytes == <<255>>
CompileBytes == <<195, 169>>

\* a payload as the service sends it under base64_encoded=true: the base64 of
\* the bytes, with a trailing line feed; the bytes themselves need not be UTF-8
Payload(bytes) == B64OfBytes(bytes) \o <<10>>

\* an optional payload: undefined/null, "", or the encoded bytes
Field(bytes) == {Absent, Some(<<>>), Some(Payload(bytes))}

StatusOf(id) == [id |-> id, description |-> StatusDescription(id)]

\* every result formatOutput is tried on
Results ==
    [status : {StatusOf(id) : id \in StatusIds},
     stdout : Field(StdoutBytes),
     stderr : Field(StderrBytes),
     compile_output : Field(CompileBytes),
     time : {Absent, Some(<<48, 46, 48, 49>>)},
     memory : {Absent, Some(0), Some(2048)}]

\* the results a poll fetch is answered with: the service attaches output,
\* time and memory only to a submission it has finished (status 3 and up)
PolledResults ==
    [status : {StatusOf(id) : id \in {i \in StatusIds : i < 3}},
     stdout : {Absent}, stderr : {Absent}, compile_output : {Absent},
     time : {Absent}, memory : {Absent}]
    \cup
    [status : {StatusOf(id) : id \in {i \in StatusIds : i >= 3}},
     stdout : Field(StdoutBytes),
     stderr : {Absent, Some(Payload(StderrBytes))},
     compile_output : {Absent, Some(Payload(CompileBytes))},
     time : {Absent, Some(<<48, 46, 48, 49>>)},
     memory : {Absent, Some(2048)}]

\* texts the service may put in an error body
ServiceMessages ==
    {<<>>,
     <<Lit("Bad request")>>,
     <<Lit("code "), Ch(52), Ch(48), Ch(49)>>,
     <<Lit("code "), Ch(52), Ch(48), Ch(51)>>,
     <<Lit("API key not configured")>>}

OptionalMessages == {Absent} \cup {Some(m) : m \in ServiceMessages}

ErrorStatuses == {401, 403, 429, 500}

Tokens == {<<Lit("tok")>>}

ObjectBody(error, message, token) ==
    [form |-> "object", error |-> error, message |-> message, token |-> token]
TextBody(text) == [form |-> "text", text |-> text]
NumberBody(n) == [form |-> "number", number |-> n]
ResultBody(result) == [form |-> "result", result |-> result]

ErrorBodies ==
    {ObjectBody(e, m, Absent) : e \in OptionalMessages, m \in OptionalMessages}
    \cup {TextBody(t) : t \in ServiceMessages}
    \cup {NumberBody(401)}

NetworkFailure == [kind |-> "network"]
Http(status, body) == [kind |-> "http", status |-> status, body |-> body]

SubmitResponses ==
    {NetworkFailure}
    \cup {Http(st, b) : st \in ErrorStatuses, b \in ErrorBodies}
    \cup {Http(201, ObjectBody(Absent, Absent, Some(t))) : t \in Tokens}
    \cup {Http(201, ObjectBody(Absent, Absent, Absent)),
          Http(201, ObjectBody(Absent, Absent, Some(<<>>))),
          Http(201, NumberBody(401)),
          Http(201, TextBody(<<Lit("Bad request")>>))}

PollResponses ==
    {NetworkFailure}
    \cup {Http(st, b) : st \in ErrorStatuses, b \in ErrorBodies}
    \cup {Http(200, ResultBody(r)) : r \in PolledResults}
    \cup {Http(200, NumberBody(401)), Http(200, TextBody(<<Lit("Bad request")>>))}

\* arguments of executeCode
LanguageIds == {71}
SourceCodes == {<<112>>, <<233>>, <<55357>>}
Stdins == {<<>>, <<49>>}

(***************************************************************************)
(* One run of executeCode                                                  *)
(***************************************************************************)
VARIABLES
    apiKey,     \* this.apiKey: "" when the environment has no key
    apiUrl,     \* this.apiUrl: "" when the environment has no base URL
    pc,         \* where the run is: idle, awaitSubmit, sleep, awaitPoll, done
    inflight,   \* the requests sent and not answered yet
    token,      \* the local token of executeCode
    attempts,   \* the local attempts of executeCode
    outcome,    \* how executeCode ended: returned text or thrown error
    submits,    \* history: submission requests issued
    polls,      \* history: poll fetches issued
    answered,   \* history: poll fetches answered
    lastSubmit, \* history: the response to the submission
    lastPoll,   \* history: the response to the latest poll fetch
    priorOther, \* history: a poll fetch before the latest reported a status other than 1, 2
    failure,    \* history: the error as it was first thrown
    fmt,        \* history: argument and value of the call of formatOutput
    delays,     \* history: inter-poll delays that have elapsed
    codec,      \* a text on its way through encodeBase64 and decodeBase64
    load,       \* loadAllTemplates: position in the language list and result
    ui,         \* the React state of CodeEditor
    hist        \* history: runs started and finished from the UI

vars == <<apiKey, apiUrl, pc, inflight, token, attempts, outcome, submits, polls,
          answered, lastSubmit, lastPoll, priorOther, failure, fmt, delays,
          codec, load, ui, hist>>

\* the variables outside Judge0Service and its run
others == <<codec, load, ui, hist>>

\* their value while the part they belong to is not under study
Idle == [part |-> "idle"]

\* executeCode has not been called: its locals and the history of the run
NoRun ==
    /\ pc = "idle"
    /\ inflight = {}
    /\ token = Absent
    /\ attempts = 0
    /\ outcome = NoOutcome
    /\ submits = 0
    /\ polls = 0
    /\ answered = 0
    /\ lastSubmit = Absent
    /\ lastPoll = Absent
    /\ priorOther = FALSE
    /\ failure = Absent
    /\ fmt = Absent
    /\ delays = 0

\* constructor, lines 18-26, and the locals before a run
Init ==
    /\ apiKey \in {"", "key"}
    /\ apiUrl \in {"", "https://judge0"}
    /\ NoRun
    /\ codec = Idle /\ load = Idle /\ ui = Idle /\ hist = Idle

\* a poll response that carries a result
Reported(resp) ==
    resp # Absent /\ Get(resp).kind = "http" /\ ResponseOk(Get(resp).status)
    /\ Get(resp).body.form = "result"
ReportedResult(resp) == Get(resp).body.result
\* a poll response whose result has a status other than 1 (In Queue), 2 (Processing)
ReportedOther(resp) == Reported(resp) /\ ReportedResult(resp).status.id \notin {1, 2}

\* the error caught inside the poll loop, which then goes on
Fail_KeepPolling(error) ==
    /\ failure' = Some(error)
    /\ outcome' = outcome
    /\ pc' = "sleep"

\* an error reaches the catch block of executeCode
Fail(error) ==
    /\ failure' = Some(error)
    /\ outcome' = Catch(error)
    /\ pc' = "done"

\* executeCode up to its first await: submitCode checks the key, builds the
\* request body and sends the submission
CallExecuteCode(languageId, sourceCode, stdin) ==
    /\ LET body == RequestBody(languageId, sourceCode, stdin) IN
       IF KeyMissing(apiKey) THEN Fail(NotConfigured) /\ UNCHANGED <<inflight, submits>>
       ELSE IF ~body.ok THEN Fail(body.err) /\ UNCHANGED <<inflight, submits>>
       ELSE /\ inflight' = {[op |-> "submit", url |-> apiUrl, body |-> body.val]}
            /\ submits' = submits + 1
            /\ pc' = "awaitSubmit"
            /\ UNCHANGED <<failure, outcome>>
    /\ UNCHANGED <<apiKey, apiUrl, token, attempts, polls, answered, lastSubmit,
                   lastPoll, priorOther, fmt, delays>>

\* a call of executeCode on a service that runs nothing else
ExecuteCode(languageId, sourceCode, stdin) ==
    /\ pc = "idle"
    /\ CallExecuteCode(languageId, sourceCode, stdin)
    /\ UNCHANGED others

\* the submission is answered: submitCode returns the token or throws, and
\* executeCode enters the poll loop and starts the first delay
SubmitResponse(resp) ==
    /\ pc = "awaitSubmit"
    /\ inflight' = {}
    /\ lastSubmit' = Some(resp)
    /\ LET t == SubmitOutcome(resp) IN
       IF t.ok
       THEN /\ token' = Some(t.val)
            /\ attempts' = 0
            /\ IF WithinBudget(0)
               THEN pc' = "sleep" /\ outcome' = outcome
               ELSE pc' = "done" /\ outcome' = Return(TimeoutText)
            /\ UNCHANGED failure
       ELSE Fail(t.err) /\ UNCHANGED <<token, attempts>>
    /\ UNCHANGED <<apiKey, apiUrl, submits, polls, answered, lastPoll, priorOther, fmt,
                   delays>>
    /\ UNCHANGED others

\* the poll fetch sent without awaiting its answer: the loop sleeps again
TimerFires_NoAwait ==
    /\ pc = "sleep"
    /\ delays' = delays + 1
    /\ inflight' = inflight \cup {[op |-> "poll", url |-> apiUrl,
                                     token |-> Get(token), n |-> polls + 1]}
    /\ polls' = polls + 1
    /\ UNCHANGED <<apiKey, apiUrl, pc, token, attempts, outcome, submits, answered,
                   lastSubmit, lastPoll, priorOther, failure, fmt>>
    /\ UNCHANGED others

\* the delay is over: getResult checks the key and sends the poll fetch
TimerFires ==
    /\ pc = "sleep"
    /\ delays' = delays + 1
    /\ IF KeyMissing(apiKey) THEN Fail(NotConfigured) /\ UNCHANGED <<inflight, polls>>
       ELSE /\ inflight' = inflight \cup {[op |-> "poll", url |-> apiUrl,
                                            token |-> Get(token), n |-> polls + 1]}
            /\ polls' = polls + 1
            /\ pc' = "awaitPoll"
            /\ UNCHANGED <<failure, outcome>>
    /\ UNCHANGED <<apiKey, apiUrl, token, attempts, submits, answered, lastSubmit,
                   lastPoll, priorOther, fmt>>
    /\ UNCHANGED others

\* the poll fetch is answered: getResult returns the result or throws; the
\* loop counts the attempt and goes on, or formats the result, or runs out
PollResponse(resp) ==
    /\ pc = "awaitPoll"
    /\ inflight' = {q \in inflight : q.op = "poll" /\ q.n # answered + 1}
    /\ answered' = answered + 1
    /\ lastPoll' = Some(resp)
    /\ priorOther' = (priorOther \/ ReportedOther(lastPoll))
    /\ \E r \in {GetResultOutcome(resp)} :
       IF ~r.ok THEN Fail(r.err) /\ UNCHANGED <<attempts, fmt>>
       ELSE IF StillProcessing(r.val)
       THEN /\ attempts' = attempts + 1
            /\ IF WithinBudget(attempts + 1)
               THEN pc' = "sleep" /\ outcome' = outcome
               ELSE pc' = "done" /\ outcome' = Return(TimeoutText)
            /\ UNCHANGED <<failure, fmt>>
       ELSE \E text \in {formatOutput(r.val)} :
            /\ fmt' = Some([arg |-> r.val, out |-> Some(text)])
            /\ IF text.ok
               THEN /\ pc' = "done"
                    /\ outcome' = Return(text.val)
                    /\ UNCHANGED <<failure, attempts>>
               ELSE Fail(text.err) /\ UNCHANGED attempts
    /\ UNCHANGED <<apiKey, apiUrl, token, submits, polls, lastSubmit, delays>>
    /\ UNCHANGED others

Next ==
    \/ \E l \in LanguageIds, s \in SourceCodes, i \in Stdins : ExecuteCode(l, s, i)
    \/ \E resp \in SubmitResponses : SubmitResponse(resp)
    \/ TimerFires
    \/ \E resp \in PollResponses : PollResponse(resp)

Spec == Init /\ [][Next]_vars

(***************************************************************************)
(* formatOutput on its own, for every result the service can send          *)
(***************************************************************************)
InitFormat ==
    /\ apiKey = "key"
    /\ apiUrl = "https://judge0"
    /\ delays = 0
    /\ codec = Idle /\ load = Idle /\ ui = Idle /\ hist = Idle
    /\ pc = "format"
    /\ inflight = {}
    /\ token = Absent
    /\ attempts = 0
    /\ outcome = NoOutcome
    /\ submits = 0
    /\ polls = 0
    /\ answered = 0
    /\ lastSubmit = Absent
    /\ lastPoll = Absent
    /\ priorOther = FALSE
    /\ failure = Absent
    /\ fmt \in {Some([arg |-> r, out |-> Absent]) : r \in Results}

FormatOutput ==
    /\ pc = "format"
    /\ Get(fmt).out = Absent
    /\ fmt' = Some([arg |-> Get(fmt).arg, out |-> Some(formatOutput(Get(fmt).arg))])
    /\ UNCHANGED <<apiKey, apiUrl, pc, inflight, token, attempts, outcome, submits,
                   polls, answered, lastSubmit, lastPoll, priorOther, failure, delays>>
    /\ UNCHANGED others

NextFormat == FormatOutput

SpecFormat == InitFormat /\ [][NextFormat]_vars

(***************************************************************************)
(* A text through encodeBase64, the service and decodeBase64               *)
(***************************************************************************)
\* the texts: every string of up to MaxTextLen UTF-16 code units out of
\* "A", U+00E9, U+20AC and the two halves of U+1F600, paired or not
MaxTextLen == 3
CodeUnits == {65, 233, 8364, 55357, 56832}
Texts == UNION {[1..n -> CodeUnits] : n \in 0..MaxTextLen}

InitCodec ==
    /\ apiKey = "key"
    /\ apiUrl = "https://judge0"
    /\ NoRun
    /\ codec \in {[part |-> "text", s |-> s] : s \in Texts}
    /\ load = Idle /\ ui = Idle /\ hist = Idle

\* submitCode encodes the text for the request body
EncodeText ==
    /\ codec.part = "text"
    /\ codec' = [part |-> "encoded", s |-> codec.s, enc |-> encodeBase64(codec.s)]
    /\ UNCHANGED <<apiKey, apiUrl, pc, inflight, token, attempts, outcome, submits,
                   polls, answered, lastSubmit, lastPoll, priorOther, failure, fmt,
                   delays, load, ui, hist>>

\* the service echoes the payload, as sent or with a trailing line feed, and
\* formatOutput decodes it
DecodeEcho(wrapped) ==
    /\ codec.part = "encoded"
    /\ codec.enc.ok
    /\ \E wire \in {IF wrapped THEN codec.enc.val \o <<10>> ELSE codec.enc.val} :
           codec' = [part |-> "decoded", s |-> codec.s, enc |-> codec.enc,
                     wire |-> wire, dec |-> decodeBase64(wire)]
    /\ UNCHANGED <<apiKey, apiUrl, pc, inflight, token, attempts, outcome, submits,
                   polls, answered, lastSubmit, lastPoll, priorOther, failure, fmt,
                   delays, load, ui, hist>>

NextCodec ==
    \/ EncodeText
    \/ \E wrapped \in BOOLEAN : DecodeEcho(wrapped)

SpecCodec == InitCodec /\ [][NextCodec]_vars

(***************************************************************************)
(* The template loader (lib/templates.ts)                                  *)
(***************************************************************************)
\* loadAllTemplates, line 27
languages == <<"javascript", "python", "java", "cpp", "csharp", "go">>

\* the descriptor the static file of a language holds (interface CodeTemplate;
\* label, description and exampleOutput are only displayed)
Judge0IdOf(language) ==
    IF language = "javascript" THEN 63
    ELSE IF language = "python" THEN 71
    ELSE IF language = "java" THEN 62
    ELSE IF language = "cpp" THEN 54
    ELSE IF language = "csharp" THEN 51
    ELSE 60
Descriptor(language) ==
    [value |-> language, judge0Id |-> Judge0IdOf(language), defaultCode |-> <<112>>,
     exampleInput |-> IF language = "python" THEN <<49>> ELSE <<>>]

TemplateBody(template) == [form |-> "template", template |-> template]
NullBody == [form |-> "null"]

\* what the fetch of /templates/<language>.json may be answered with: no
\* response, a non-success status, a body that is not JSON, the JSON value
\* null, or the descriptor
TemplateResponses(language) ==
    {NetworkFailure,
     Http(404, TextBody(<<Lit("Not Found")>>)),
     Http(200, TextBody(<<Lit("<!DOCTYPE html>")>>)),
     Http(200, NullBody),
     Http(200, TemplateBody(Descriptor(language)))}

\* loadTemplate, lines 13-19: the body of the try block
TryLoadTemplate(language, resp) ==
    IF resp.kind = "network" THEN Throw(FetchFailed)
    ELSE IF ~ResponseOk(resp.status)
         THEN Throw(Err("Error", <<Lit("Failed to load template for "), Lit(language)>>))
    ELSE IF resp.body.form = "text" THEN Throw(JsonSyntaxError)
    ELSE IF resp.body.form = "null" THEN Ok(Absent)
    ELSE Ok(Some(resp.body.template))

\* loadTemplate without its catch block
loadTemplate_NoCatch(language, resp) == TryLoadTemplate(language, resp)

\* loadTemplate, lines 11-24: the data, or null for whatever was thrown
loadTemplate(language, resp) ==
    IF TryLoadTemplate(language, resp).ok THEN TryLoadTemplate(language, resp)
    ELSE Ok(Absent)

\* loadAllTemplates is called: the list is empty and the fetch of the first
\* language is in flight
Loading == [part |-> "loading", idx |-> 1, templates |-> <<>>, fetched |-> <<>>]

\* loadAllTemplates, lines 30-37: the fetch in flight is answered; the
\* template is pushed when it is truthy, and the loop fetches the next
\* language or returns the list
LoadTemplate(resp) ==
    /\ load.part = "loading"
    /\ \E t \in {loadTemplate(languages[load.idx], resp)} :
           load' = IF ~t.ok
                   THEN [part |-> "failed", idx |-> load.idx, templates |-> load.templates,
                         fetched |-> Append(load.fetched,
                                            [language |-> languages[load.idx], resp |-> resp])]
                   ELSE [part |-> IF load.idx < Len(languages) THEN "loading" ELSE "returned",
                         idx |-> load.idx + 1,
                         templates |-> IF t.val # Absent
                                       THEN Append(load.templates, Get(t.val))
                                       ELSE load.templates,
                         fetched |-> Append(load.fetched,
                                            [language |-> languages[load.idx], resp |-> resp])]
    /\ UNCHANGED <<apiKey, apiUrl, pc, inflight, token, attempts, outcome, submits,
                   polls, answered, lastSubmit, lastPoll, priorOther, failure, fmt,
                   delays, codec, ui, hist>>

InitTemplates ==
    /\ apiKey = "key"
    /\ apiUrl = "https://judge0"
    /\ NoRun
    /\ load = Loading
    /\ codec = Idle /\ ui = Idle /\ hist = Idle

NextTemplates ==
    \E l \in 1..Len(languages) : \E resp \in TemplateResponses(languages[l]) :
        load.part = "loading" /\ l = load.idx /\ LoadTemplate(resp)

SpecTemplates == InitTemplates /\ [][NextTemplates]_vars

(***************************************************************************)
(* The editor page (CodeEditor): templates, language, Run button           *)
(***************************************************************************)
\* texts of the output panel
InitialOutput == <<Lit("Click 'Run Code' to see the output here...")>>
NoTemplateText == <<Lit("Error: No template selected")>>
CompilingText == <<Lit("Compiling and running code...")>>
LoadFailedText == <<Lit("Error: Failed to load code templates")>>
SetupInstructions == <<Lit("\n\nSetup Instructions:\n"), Ch(49), Lit(". Go to ...")>>

\* runCode, lines 368-375: the message shown for an error executeCode threw
ErrorMessage(error) ==
    <<Lit("Error: ")>> \o error.message
    \o (IF Includes(error.message, <<Lit("API key not configured")>>)
        THEN SetupInstructions ELSE <<>>)

\* the Run button that stays enabled during a run
RunButtonEnabled_Always == TRUE

\* Run button, line 420: disabled={isRunning}
RunButtonEnabled == ~ui.isRunning

\* the page allows at most MaxRuns runs to be started
MaxRuns == 2

\* what the page's requests are answered with
UiTemplateResponses(language) ==
    {Http(404, TextBody(<<Lit("Not Found")>>))}
    \cup (IF language \in {"javascript", "python"}
          THEN {Http(200, TemplateBody(Descriptor(language)))} ELSE {})
UiSubmitResponses ==
    {NetworkFailure,
     Http(401, TextBody(<<Lit("Bad request")>>)),
     Http(201, ObjectBody(Absent, Absent, Some(<<Lit("tok")>>)))}
UiPollResponses ==
    {NetworkFailure,
     Http(200, ResultBody([status |-> StatusOf(1), stdout |-> Absent, stderr |-> Absent,
                           compile_output |-> Absent, time |-> Absent, memory |-> Absent])),
     Http(200, ResultBody([status |-> StatusOf(3), stdout |-> Some(Payload(StdoutBytes)),
                           stderr |-> Absent, compile_output |-> Absent,
                           time |-> Some(<<48, 46, 48, 49>>), memory |-> Some(2048)]))}

\* the page is mounted: useState initial values, and the effect has called
\* loadTemplates, whose first fetch is in flight
InitUI ==
    /\ apiKey \in {"", "key"}
    /\ apiUrl = "https://judge0"
    /\ NoRun
    /\ codec = Idle
    /\ load = Loading
    /\ ui = [isLoading |-> TRUE, isRunning |-> FALSE, templates |-> <<>>,
             selectedLanguage |-> "javascript", currentTemplate |-> Absent,
             code |-> <<>>, input |-> <<>>, output |-> InitialOutput]
    /\ hist = [started |-> 0, finished |-> 0]

\* loadTemplates, lines 322-336, after loadAllTemplates has settled
TemplatesLoaded ==
    /\ ui.isLoading
    /\ load.part \in {"returned", "failed"}
    /\ ui' = IF load.part = "failed"
             THEN [ui EXCEPT !.output = LoadFailedText, !.isLoading = FALSE]
             ELSE IF Len(load.templates) > 0
             THEN [ui EXCEPT !.templates = load.templates,
                             !.currentTemplate = Some(load.templates[1]),
                             !.code = load.templates[1].defaultCode,
                             !.input = load.templates[1].exampleInput,
                             !.isLoading = FALSE]
             ELSE [ui EXCEPT !.templates = load.templates, !.isLoading = FALSE]
    /\ UNCHANGED <<apiKey, apiUrl, pc, inflight, token, attempts, outcome, submits,
                   polls, answered, lastSubmit, lastPoll, priorOther, failure, fmt,
                   delays, codec, load, hist>>

\* handleLanguageChange, lines 339-348: a language of the select is chosen
handleLanguageChange(language) ==
    /\ ~ui.isLoading
    /\ \E i \in 1..Len(ui.templates) : ui.templates[i].value = language
    /\ \E template \in {ui.templates[CHOOSE i \in 1..Len(ui.templates) :
                                          ui.templates[i].value = language]} :
           ui' = [ui EXCEPT !.selectedLanguage = language,
                            !.currentTemplate = Some(template),
                            !.code = template.defaultCode,
                            !.input = template.exampleInput,
                            !.output = InitialOutput]
    /\ UNCHANGED <<apiKey, apiUrl, pc, inflight, token, attempts, outcome, submits,
                   polls, answered, lastSubmit, lastPoll, priorOther, failure, fmt,
                   delays, codec, load, hist>>

\* runCode, lines 354-364: a click on the Run button, up to the await
runCode ==
    /\ ~ui.isLoading
    /\ RunButtonEnabled
    /\ hist.started < MaxRuns
    /\ IF ui.currentTemplate = Absent
       THEN /\ ui' = [ui EXCEPT !.output = NoTemplateText]
            /\ UNCHANGED <<apiKey, apiUrl, pc, inflight, token, attempts, outcome,
                           submits, polls, answered, lastSubmit, lastPoll, priorOther,
                           failure, fmt, delays, hist>>
       ELSE /\ ui' = [ui EXCEPT !.isRunning = TRUE, !.output = CompilingText]
            /\ hist' = [hist EXCEPT !.started = hist.started + 1]
            /\ CallExecuteCode(Get(ui.currentTemplate).judge0Id, ui.code, ui.input)
    /\ UNCHANGED <<codec, load>>

\* runCode without its finally block: the flag is cleared at the end of the
\* try block only, so it stays set when executeCode threw
RunSettles_NoFinally ==
    /\ pc = "done"
    /\ ui' = [ui EXCEPT !.output = IF outcome.kind = "return" THEN outcome.text
                                   ELSE ErrorMessage(outcome.error),
                        !.isRunning = (outcome.kind # "return")]
    /\ hist' = [hist EXCEPT !.finished = hist.finished + 1]
    /\ pc' = "idle"
    /\ inflight' = {}
    /\ token' = Absent
    /\ attempts' = 0
    /\ outcome' = NoOutcome
    /\ submits' = 0
    /\ polls' = 0
    /\ answered' = 0
    /\ lastSubmit' = Absent
    /\ lastPoll' = Absent
    /\ priorOther' = FALSE
    /\ failure' = Absent
    /\ fmt' = Absent
    /\ delays' = 0
    /\ UNCHANGED <<apiKey, apiUrl, codec, load>>

\* runCode, lines 364-378: executeCode has settled; the text or the error
\* message is shown, the flag is cleared and the call is over
RunSettles ==
    /\ pc = "done"
    /\ ui' = [ui EXCEPT !.output = IF outcome.kind = "return" THEN outcome.text
                                   ELSE ErrorMessage(outcome.error),
                        !.isRunning = FALSE]
    /\ hist' = [hist EXCEPT !.finished = hist.finished + 1]
    /\ pc' = "idle"
    /\ inflight' = {}
    /\ token' = Absent
    /\ attempts' = 0
    /\ outcome' = NoOutcome
    /\ submits' = 0
    /\ polls' = 0
    /\ answered' = 0
    /\ lastSubmit' = Absent
    /\ lastPoll' = Absent
    /\ priorOther' = FALSE
    /\ failure' = Absent
    /\ fmt' = Absent
    /\ delays' = 0
    /\ UNCHANGED <<apiKey, apiUrl, codec, load>>

NextUI ==
    \/ \E l \in 1..Len(languages) : \E resp \in UiTemplateResponses(languages[l]) :
           load.part = "loading" /\ l = load.idx /\ LoadTemplate(resp)
    \/ TemplatesLoaded
    \/ \E language \in {languages[l] : l \in 1..Len(languages)} :
           handleLanguageChange(language)
    \/ runCode
    \/ \E resp \in UiSubmitResponses : SubmitResponse(resp)
    \/ TimerFires
    \/ \E resp \in UiPollResponses : PollResponse(resp)
    \/ RunSettles

SpecUI == InitUI /\ [][NextUI]_vars

\* every request is answered, every delay elapses and every settled call is
\* resumed
SpecUILive ==
    /\ SpecUI
    /\ WF_vars(\E resp \in UiSubmitResponses : SubmitResponse(resp))
    /\ WF_vars(TimerFires)
    /\ WF_vars(\E resp \in UiPollResponses : PollResponse(resp))
    /\ WF_vars(RunSettles)

TypeOK ==
    /\ pc \in {"idle", "awaitSubmit", "sleep", "awaitPoll", "done", "format"}
    /\ attempts \in 0..maxAttempts
    /\ polls \in 0..maxAttempts
    /\ outcome.kind \in {"none", "return", "throw"}

(***************************************************************************)
(* Properties                                                              *)
(***************************************************************************)
\* the run is over
Done == pc = "done"
\* the submission was answered with a token
Submitted == token # Absent
\* every poll fetch so far was answered with status 1 (In Queue) or 2 (Processing)
AllPending == ~priorOther /\ Reported(lastPoll) /\ ~ReportedOther(lastPoll)
\* the response that made the run fail: the latest poll response, or the
\* response to the submission when no poll fetch was answered
FailedResponse == IF lastPoll # Absent THEN Get(lastPoll) ELSE Get(lastSubmit)
\* the run failed on a response of the service
FailedOnResponse == Done /\ failure # Absent /\ lastSubmit # Absent
\* the run failed on a non-success HTTP status
Rejected == FailedOnResponse /\ FailedResponse.kind = "http"
                             /\ ~ResponseOk(FailedResponse.status)

\* C1: when the submission succeeds and every poll fetch reports status 1 or
\* 2, the run issues exactly 30 poll fetches and returns the timeout text; no
\* run issues a 31st poll fetch, and the timeout text is returned by no run
\* that formatted a result or failed.
C1_TimeoutAfterThirtyPolls ==
    /\ polls <= 30
    /\ (Done /\ Submitted /\ AllPending)
           => (polls = 30 /\ answered = 30 /\ outcome = Return(TimeoutText))
    /\ (outcome.kind = "return" /\ outcome.text = TimeoutText)
           => (Done /\ polls = 30 /\ failure = Absent /\ fmt = Absent)
    /\ (fmt # Absent \/ failure # Absent) => outcome # Return(TimeoutText)

C1_Witness == Done /\ Submitted /\ AllPending /\ polls = 30 /\ outcome = Return(TimeoutText)

\* C2: when the k-th poll fetch is the first one to report a status other
\* than 1 and 2, the run is over with the formatted text of that result and
\* k poll fetches were issued in all.
C2_FirstTerminalPollEndsRun ==
    (~priorOther /\ ReportedOther(lastPoll))
        => /\ Done
           /\ formatOutput(ReportedResult(lastPoll)).ok
           /\ outcome = Return(formatOutput(ReportedResult(lastPoll)).val)
           /\ polls = answered

\* C3: the poll loop goes on if and only if the reported status is 1 or 2;
\* any other status, also one below 1, ends the loop with the fetched result.
C3_OnlyQueuedAndProcessingContinue ==
    Reported(lastPoll)
        => (ReportedOther(lastPoll)
               <=> (Done /\ fmt # Absent /\ Get(fmt).arg = ReportedResult(lastPoll)))

\* C4: without a key no request is ever issued, and the run ends by
\* returning the missing-configuration guidance.
C4_NoKeyNoRequest ==
    apiKey = ""
        => /\ submits = 0 /\ polls = 0 /\ inflight = {}
           /\ pc \in {"idle", "done"}
           /\ Done => (outcome = Return(NotConfiguredText) /\ fmt = Absent)

C4_Witness == apiKey = "" /\ Done /\ outcome = Return(NotConfiguredText) /\ submits = 0

\* C5: at most one submission is issued in a run; a failed submission or a
\* failed poll fetch ends the run at once: nothing is in flight, no poll
\* fetch follows the failed one, and a failed submission is followed by none.
C5_NoRetryAfterFailure ==
    /\ submits <= 1
    /\ failure # Absent
           => /\ Done
              /\ inflight = {}
              /\ polls = answered
              /\ token = Absent => polls = 0

C5_Witness ==
    /\ Done /\ failure # Absent /\ submits = 1 /\ polls = 3 /\ answered = 3
    /\ Get(lastPoll).kind = "network"

\* C6: a rejection with HTTP 401, 403 or 429, of the submission or of a poll
\* fetch, makes the run return the guidance text of that status, whatever
\* the body of the rejection.
C6_GuidanceMatchesStatus ==
    Rejected
        => /\ FailedResponse.status = 401 => outcome = Return(InvalidKeyText)
           /\ FailedResponse.status = 403 => outcome = Return(ForbiddenText)
           /\ FailedResponse.status = 429 => outcome = Return(RateLimitText)

\* C7: a failure that is not a 401, 403 or 429 rejection nor the missing
\* key leaves executeCode as the error that was thrown, whatever message the
\* service supplied.
C7_UnrecognizedPropagates ==
    (FailedOnResponse /\ ~(Rejected /\ FailedResponse.status \in {401, 403, 429}))
        => outcome = Rethrow(Get(failure))

\* the part of a formatted text in front of the execution info, and the rest
InfoStart(text) ==
    CHOOSE i \in 1..(Len(text) + 1) :
        /\ i <= Len(text) => text[i] = Lit("\n\n--- Execution Info ---")
        /\ \A j \in 1..(i - 1) : text[j] # Lit("\n\n--- Execution Info ---")
BodyOf(text) == SubSeq(text, 1, InfoStart(text) - 1)
InfoOf(text) == SubSeq(text, InfoStart(text), Len(text))

\* first position of a fragment in a text (0: nowhere)
Position(text, pat) ==
    IF Includes(text, pat)
    THEN CHOOSE i \in 1..(Len(text) - Len(pat) + 1) :
             /\ SubSeq(text, i, i + Len(pat) - 1) = pat
             /\ \A j \in 1..(i - 1) : SubSeq(text, j, j + Len(pat) - 1) # pat
    ELSE 0

\* the three payloads as they read once decoded
StdoutText == <<Ch(104), Ch(105), Ch(10)>>
StderrText == <<Ch(255)>>
CompileText == <<Ch(233)>>

\* the policy table: the status codes whose text shows a field
ShowsStdout(id) == id \in {3, 4} \/ id \notin 3..14
ShowsStderr(id) == id \in {7, 11, 12} \/ id \notin 3..14
ShowsCompile(id) == id = 6 \/ id \notin 3..14

\* a field counts as present when it is there and not the empty string
Present(field) == field # Absent /\ Get(field) # <<>>

\* the labels that introduce a payload
StdoutLabels == {Lit("Output:\n"), Lit("\nOutput:\n")}
StderrLabels == {Lit("Error Details:\n"), Lit("\nErrors:\n")}
CompileLabels == {Lit("\nCompilation:\n")}
HasLabel(text, labels) == \E i \in 1..Len(text) : text[i] \in labels

\* the sections of a body are those of the policy table for result r
BodyFollowsPolicy(r, body) ==
    LET id == r.status.id
        out == ShowsStdout(id) /\ Present(r.stdout)
        errs == ShowsStderr(id) /\ Present(r.stderr)
        comp == ShowsCompile(id) /\ Present(r.compile_output)
    IN /\ Includes(body, StdoutText) <=> out
       /\ Includes(body, StderrText) <=> errs
       /\ Includes(body, CompileText) <=> comp
       /\ HasLabel(body, StdoutLabels) <=> out
       /\ HasLabel(body, StderrLabels) <=> errs
       /\ HasLabel(body, CompileLabels) <=> (comp /\ id # 6)
       /\ Len(body) = 1 + (IF id \in 3..14 THEN 0 ELSE 3 + Len(NumText(id)))
                        + (IF out THEN 1 + Len(StdoutText) ELSE 0)
                        + (IF errs THEN 1 + Len(StderrText) ELSE 0)
                        + (IF comp THEN (IF id = 6 THEN 0 ELSE 1) + Len(CompileText) ELSE 0)
                        - (IF id = 3 /\ out THEN 1 ELSE 0)
       /\ Includes(body, <<Lit("Code executed successfully (no output)")>>)
              <=> (id = 3 /\ ~Present(r.stdout))
       /\ id \notin 3..14
              => /\ SubSeq(body, 1, 3 + Len(NumText(id)))
                    = <<Lit("Unknown Status (")>> \o NumText(id) \o <<Lit("): ")>>
                      \o r.status.description
                 /\ (out /\ errs) => Position(body, StdoutText) < Position(body, StderrText)
                 /\ (errs /\ comp) => Position(body, StderrText) < Position(body, CompileText)
                 /\ (out /\ comp) => Position(body, StdoutText) < Position(body, CompileText)

\* C8: for every status code and every combination of absent, empty and
\* present stdout, stderr and compile output, the body of the formatted text
\* holds exactly the sections the policy table gives the code, in its order.
C8_SectionsFollowPolicy ==
    (fmt # Absent /\ Get(fmt).out # Absent)
        => /\ Get(Get(fmt).out).ok
           /\ BodyFollowsPolicy(Get(fmt).arg, BodyOf(Get(Get(fmt).out).val))

C8_Witness ==
    /\ pc = "format" /\ fmt # Absent /\ Get(fmt).out # Absent
    /\ Get(fmt).arg.status.id = 6
    /\ Present(Get(fmt).arg.stdout) /\ Present(Get(fmt).arg.stderr)
    /\ Present(Get(fmt).arg.compile_output)
    /\ Includes(Get(Get(fmt).out).val, CompileText)

\* the execution info of a text names the code and the description of r
InfoNames(r, info) ==
    /\ Len(info) >= 6
    /\ SubSeq(info, 1, 2) = <<Lit("\n\n--- Execution Info ---"), Lit("\nStatus: ")>>
    /\ SubSeq(info, 3, 4 + Len(r.status.description) + Len(NumText(r.status.id)))
           = r.status.description \o <<Lit(" (")>> \o NumText(r.status.id) \o <<Lit(")")>>
    /\ info[Len(info)] = Lit(" KB")

\* C9: every text formatOutput produces ends with the execution info, which
\* names the status code and the status description of the result; a run that
\* ends on a fetched result returns that text, and every run whose poll fetch
\* reports a status of 3 or more ends that way.
C9_InfoBlockAlways ==
    /\ fmt # Absent
           => /\ Get(Get(fmt).out).ok
              /\ InfoStart(Get(Get(fmt).out).val) <= Len(Get(Get(fmt).out).val)
              /\ InfoNames(Get(fmt).arg, InfoOf(Get(Get(fmt).out).val))
              /\ Done /\ outcome = Return(Get(Get(fmt).out).val)
              /\ Get(fmt).arg = ReportedResult(lastPoll)
    /\ (Reported(lastPoll) /\ ReportedResult(lastPoll).status.id >= 3) => fmt # Absent

C9_Witness ==
    /\ Done /\ fmt # Absent /\ Get(fmt).arg.status.id = 15 /\ answered = 2
    /\ outcome.kind = "return" /\ Includes(outcome.text, <<Lit("\nStatus: "), Lit("Unknown")>>)

\* C10: a success response without a token ends the run with the error
\* "No token received": it is thrown to the caller, no poll fetch is issued
\* and the submission is not sent again.
C10_MissingTokenIsProtocolError ==
    (lastSubmit # Absent /\ Get(lastSubmit).kind = "http" /\ ResponseOk(Get(lastSubmit).status)
        /\ Get(lastSubmit).body.form # "text"
        /\ ~(Get(lastSubmit).body.form = "object" /\ Present(Get(lastSubmit).body.token)))
        => /\ Done
           /\ outcome = Rethrow(NoToken)
           /\ failure = Some(NoToken)
           /\ polls = 0 /\ submits = 1 /\ inflight = {}

C10_Witness ==
    /\ Done /\ lastSubmit = Some(Http(201, ObjectBody(Absent, Absent, Absent)))
    /\ outcome = Rethrow(NoToken)

\* C14: a submission needs the key and the base URL: a service that has a key
\* and no base URL ends the run with the configuration error and sends no
\* request.
C14_NoBaseUrlNoRequest ==
    (apiKey # "" /\ apiUrl = "" /\ pc # "idle")
        => /\ Done /\ failure = Some(NotConfigured)
           /\ submits = 0 /\ polls = 0 /\ inflight = {}

\* the poll fetches sent and not answered yet
PollsInFlight == {q \in inflight : q.op = "poll"}

\* C15: the poll fetches of a run are sequential: at most one is in flight and
\* it is the latest one issued; the run waits for its answer and nowhere else
\* is a poll fetch unanswered; every poll fetch was issued by a delay that
\* elapsed after the answer to the one before, and none while the submission
\* is unanswered.
C15_PollsAreSequential ==
    /\ Cardinality(PollsInFlight) <= 1
    /\ \A q \in PollsInFlight : q.n = polls /\ q.n = answered + 1
    /\ polls - answered \in {0, 1}
    /\ (polls = answered + 1) <=> (pc = "awaitPoll")
    /\ (pc = "awaitPoll") <=> (PollsInFlight # {})
    /\ polls = delays
    /\ (pc = "awaitSubmit") => (polls = 0 /\ delays = 0)
    /\ (PollsInFlight # {}) => (inflight = PollsInFlight)

C15_Witness ==
    /\ pc = "awaitPoll" /\ polls = 3 /\ answered = 2 /\ delays = 3
    /\ Cardinality(PollsInFlight) = 1

\* the ways a run that has polled ends
EndsOnTerminal ==
    /\ Reported(lastPoll) /\ ReportedOther(lastPoll)
    /\ fmt # Absent /\ Get(Get(fmt).out).ok
    /\ outcome = Return(Get(Get(fmt).out).val)
    /\ failure = Absent
EndsOnBudget ==
    /\ attempts = maxAttempts /\ answered = maxAttempts
    /\ outcome = Return(TimeoutText)
    /\ fmt = Absent /\ failure = Absent
EndsOnFailedPoll ==
    /\ lastPoll # Absent /\ ~GetResultOutcome(Get(lastPoll)).ok
    /\ failure = Some(GetResultOutcome(Get(lastPoll)).err)
    /\ outcome = Catch(GetResultOutcome(Get(lastPoll)).err)
    /\ fmt = Absent

\* C16 as stated: a run that has polled ends in exactly one of two ways: a
\* poll fetch reported a terminal status, or the budget of 30 attempts is
\* exhausted.
C16_LoopEndsOnTerminalOrBudget ==
    (Done /\ polls >= 1)
        => /\ EndsOnTerminal \/ EndsOnBudget
           /\ ~(EndsOnTerminal /\ EndsOnBudget)

\* C16 amended: a run that has polled ends in exactly one of three ways: a
\* poll fetch reported a terminal status and the run returns the formatted
\* result, or the budget of 30 attempts is exhausted and it returns the timeout
\* text, or a poll fetch failed (no response, a non-success status, a body that
\* is no result) and the run ends with that error; until then it is waiting
\* for a delay or for an answer, with attempts left.
C16_LoopEndsInThreeWays ==
    /\ (Done /\ polls >= 1)
           => /\ EndsOnTerminal \/ EndsOnBudget \/ EndsOnFailedPoll
              /\ ~(EndsOnTerminal /\ EndsOnBudget)
              /\ ~(EndsOnTerminal /\ EndsOnFailedPoll)
              /\ ~(EndsOnBudget /\ EndsOnFailedPoll)
    /\ (~Done /\ polls >= 1)
           => /\ pc \in {"sleep", "awaitPoll"}
              /\ outcome = NoOutcome /\ attempts < maxAttempts
              /\ fmt = Absent /\ failure = Absent

C16_Witness ==
    /\ Done /\ polls = 2 /\ EndsOnFailedPoll
    /\ Get(lastPoll) = NetworkFailure

\* C17: the execution info shows the placeholder for the time exactly when the
\* result has no time, and the placeholder for the memory exactly when it has
\* no memory: a memory that is present, 0 included, is shown as its value.
C17_PlaceholderIffAbsent ==
    (fmt # Absent /\ Get(fmt).out # Absent /\ Get(Get(fmt).out).ok)
        => /\ Includes(InfoOf(Get(Get(fmt).out).val), <<Lit("\nTime: "), Lit("N/A")>>)
                  <=> (Get(fmt).arg.time = Absent)
           /\ Includes(InfoOf(Get(Get(fmt).out).val), <<Lit("\nMemory: "), Lit("N/A")>>)
                  <=> (Get(fmt).arg.memory = Absent)
           /\ Get(fmt).arg.memory # Absent
                  => Includes(InfoOf(Get(Get(fmt).out).val),
                              <<Lit("\nMemory: ")>> \o NumText(Get(Get(fmt).arg.memory))
                                  \o <<Lit(" KB")>>)

\* the polls answered so far with status 1 (In Queue) or 2 (Processing), in a
\* run where no poll before the latest reported another status
PendingPolls ==
    IF lastPoll # Absent /\ (~Reported(lastPoll) \/ ReportedOther(lastPoll))
    THEN answered - 1
    ELSE answered

\* C19: formatOutput is applied only to a result whose status is above 2, no
\* text a run returns has an execution info that reports In Queue or
\* Processing, and attempts stays within 0..30 and is the number of polls
\* answered so far with a non-terminal status (1 or 2).
C19_FormatOnlyTerminalResults ==
    /\ fmt # Absent => Get(fmt).arg.status.id > 2
    /\ outcome.kind = "return"
           => /\ ~Includes(outcome.text, <<Lit("\nStatus: "), Lit("In Queue")>>)
              /\ ~Includes(outcome.text, <<Lit("\nStatus: "), Lit("Processing")>>)
    /\ attempts \in 0..maxAttempts
    /\ ~priorOther => attempts = PendingPolls

\* a text without an unpaired surrogate
WellFormed(str) ==
    \A i \in 1..Len(str) :
        /\ IsHighSurrogate(str[i]) => (i < Len(str) /\ IsLowSurrogate(str[i + 1]))
        /\ IsLowSurrogate(str[i]) => (i > 1 /\ IsHighSurrogate(str[i - 1]))

\* C13 as stated: every text is encoded, and decoding the echoed payload gives
\* the text back.
C13_RoundTripEveryText ==
    /\ codec.part = "encoded" => codec.enc.ok
    /\ codec.part = "decoded" => codec.dec = Ok(codec.s)

\* C13 amended: every text without an unpaired surrogate (ASCII, multi-byte
\* characters, the empty text) is encoded, and decoding the echoed payload
\* gives the text back; encoding a text with an unpaired surrogate throws.
C13_RoundTripWellFormedText ==
    /\ (codec.part = "encoded" /\ WellFormed(codec.s)) => codec.enc.ok
    /\ (codec.part = "encoded" /\ ~WellFormed(codec.s)) => ~codec.enc.ok
    /\ codec.part = "decoded" => (WellFormed(codec.s) /\ codec.dec = Ok(codec.s))

C13_Witness ==
    /\ codec.part = "decoded" /\ codec.s = <<55357, 56832, 233>>
    /\ codec.wire[Len(codec.wire)] = 10
    /\ codec.dec = Ok(<<55357, 56832, 233>>)

\* the fetch of a template file delivered a descriptor
Delivered(resp) ==
    resp.kind = "http" /\ ResponseOk(resp.status) /\ resp.body.form = "template"
\* the descriptors delivered by a sequence of fetches, in the order of the fetches
DeliveredTemplates(fetched) ==
    LET ok == SelectSeq(fetched, LAMBDA f : Delivered(f.resp))
    IN [i \in 1..Len(ok) |-> ok[i].resp.body.template]

\* C12: loadAllTemplates never fails: whichever fetches fail (no response, a
\* non-success status, a body that is not a descriptor), it goes on to fetch
\* every remaining language in the fixed order, and what it holds and returns
\* are exactly the descriptors of the languages fetched with success, in that
\* order, with no entry for a language whose fetch failed.
C12_LoadAllTemplatesNeverFails ==
    (load # Idle)
        => /\ load.part \in {"loading", "returned"}
           /\ (load.part = "returned") <=> (Len(load.fetched) = Len(languages))
           /\ load.part = "loading" => load.idx = Len(load.fetched) + 1
           /\ \A i \in 1..Len(load.fetched) : load.fetched[i].language = languages[i]
           /\ load.templates = DeliveredTemplates(load.fetched)
           /\ \A i \in 1..Len(load.fetched) :
                  ~Delivered(load.fetched[i].resp)
                      => \A j \in 1..Len(load.templates) :
                             load.templates[j].value # languages[i]

C12_Witness ==
    /\ load # Idle /\ load.part = "returned"
    /\ load.fetched[1].resp = NetworkFailure
    /\ load.fetched[3].resp.kind = "http" /\ load.fetched[3].resp.status = 404
    /\ load.fetched[4].resp.kind = "http" /\ load.fetched[4].resp.body.form = "text"
    /\ load.fetched[4].resp.status = 200
    /\ load.fetched[5].resp.kind = "http" /\ load.fetched[5].resp.body.form = "null"
    /\ load.templates = <<Descriptor("python"), Descriptor("go")>>

\* the calls of executeCode the page has started and that have not settled
RunsInFlight == hist.started - hist.finished

\* C11: at most one call of executeCode is in flight, whatever the clicks,
\* language changes and completions: the running flag is set exactly while a
\* call is in flight (from the click that starts it until it settles), the
\* requests of a run exist only then, and while it is set the Run button
\* starts nothing.
C11_OneRunInFlight ==
    (ui # Idle)
        => /\ RunsInFlight \in {0, 1}
           /\ ui.isRunning <=> (RunsInFlight = 1)
           /\ ui.isRunning <=> (pc # "idle")
           /\ ~ui.isRunning => (inflight = {} /\ submits = 0 /\ polls = 0)
           /\ ui.isRunning => (~ENABLED runCode /\ submits <= 1)

C11_Witness ==
    /\ ui # Idle /\ ui.isRunning /\ hist.started = 2 /\ hist.finished = 1
    /\ pc = "awaitPoll" /\ polls = 2
    /\ ui.selectedLanguage = "python" /\ ui.output = InitialOutput

\* the text of the output panel once a call of executeCode has settled: the
\* text it returned (formatted result, timeout or guidance), or "Error: " and
\* the message of the error it threw
SettledOutput ==
    IF outcome.kind = "return" THEN outcome.text
    ELSE <<Lit("Error: ")>> \o outcome.error.message

\* what C18 says of every step: a settling call leaves the flag cleared and
\* the panel showing its text or its error message; nothing else clears the
\* flag; with no template selected no step sets the flag or sends a request
SettlesCleanly ==
    /\ (pc = "done" /\ pc' = "idle")
           => /\ ~ui'.isRunning
              /\ ui'.output = SettledOutput
              /\ hist'.finished = hist.finished + 1
    /\ (ui.isRunning /\ ~ui'.isRunning) => pc = "done"
    /\ ui.currentTemplate = Absent
           => /\ ~ui'.isRunning
              /\ pc' = "idle" /\ inflight' = {} /\ submits' = 0
              /\ hist'.started = hist.started

\* C18: every run started from the page clears the running flag in the end,
\* given that every request is answered: the flag that is set is cleared
\* later; the step in which a call of executeCode settles, whether it returned
\* a text or threw, leaves the flag cleared and the panel showing that run's
\* text or its error message, and the flag is cleared by no other step; a
\* click on Run with no template selected leaves the flag cleared and sends
\* no request.
C18_RunningFlagIsCleared ==
    /\ (ui.isRunning ~> ~ui.isRunning)
    /\ [][SettlesCleanly]_vars

\* a run that threw has settled: the flag is cleared and the panel shows the
\* error message
C18_Witness ==
    /\ ui # Idle /\ ~ui.isRunning /\ hist.finished = 2 /\ pc = "idle"
    /\ ui.output = <<Lit("Error: "), Lit("Failed to fetch")>>

====
